---------------------------- MODULE Spec2Model ----------------------------
(***************************************************************************)
(* A model of app.py, the Streamlit report of a Google Forms export.       *)
(*                                                                         *)
(* The script runs top to bottom once per upload.  It is modelled as a     *)
(* sequence of steps (pc), one per section of the script, over a table df  *)
(* read from the uploaded file.  Column names and cell texts are strings;  *)
(* a missing cell (NaN) is the record NA.  The pure helpers of the script  *)
(* (guess_timestamp_col, is_*_col, clean_text, to_numeric_series,          *)
(* nice_col) are operators computed the way the code computes them.        *)
(***************************************************************************)
EXTENDS Integers, Sequences, FiniteSets, TLC

VARIABLES
    pc,                 \* position of the script
    up,                 \* st.file_uploader: NoFile or the uploaded table
    hide_identifying,   \* st.toggle, line 90
    show_raw_table,     \* st.toggle, line 94
    max_comments,       \* st.slider, line 101
    df,                 \* pd.read_excel(up)
    ts_col,             \* guess_timestamp_col(cols)
    df_work,            \* the columns of df_work, in order
    numeric_cols,       \* line 169
    means,              \* the sorted frame of (Indicador, Media), line 176
    textual_cols,       \* line 202
    q,                  \* st.selectbox, line 211
    freq,               \* the frame of (Resposta, Quantidade), line 217
    comments,           \* per comment column, what the section writes
    metrics,            \* the values of the metric tiles, lines 136-162
    raw_table,          \* the columns of the frame written at line 274
    rendered,           \* the elements written to the page, in order
    arg,                \* the input of a helper under test
    res                 \* the output of a helper under test

vars == <<pc, up, hide_identifying, show_raw_table, max_comments, df, ts_col,
          df_work, numeric_cols, means, textual_cols, q, freq, comments,
          metrics, raw_table, rendered, arg, res>>

pipeVars == <<up, hide_identifying, show_raw_table, max_comments, df, ts_col,
              df_work, numeric_cols, means, textual_cols, q, freq, comments,
              metrics, raw_table, rendered>>

-----------------------------------------------------------------------------
(* Python values *)

\* Python's None (a column name is never this string)
None == "<None>"

\* a missing cell: NaN in the frame
NA == [na |-> TRUE, v |-> ""]

\* a cell holding a value whose str() is s
Cell(s) == [na |-> FALSE, v |-> s]

-----------------------------------------------------------------------------
(* The column names the model draws sheets from *)

\* for p in preferred, line 21
preferred == <<"Carimbo de data/hora", "Timestamp", "Data/hora", "Data e hora">>

\* one column of each kind: timestamp, identifying (e-mail, name), comment and
\* identifying at once, comment, plain
ColNames ==
    {"Carimbo de data/hora", "E-mail", "Seu nome", "Feedback por e-mail",
     "Comentarios", "Curso"}

\* the columns of the sheets of ratings
NumNames == {"Nota", "Clareza", "Timestamp"}

\* the columns of the sheets of answers in words
TextNames == {"Comentarios", "Curso"}

\* the names guess_timestamp_col is tried on
GuessNames ==
    {"Carimbo de data/hora", "TIMESTAMP", "Data/hora da resposta", "Data e Hora",
     "Data", "Nota"}

\* the column of the long sheets of ratings: a comment column by its name, so
\* that no frequency table is made of its many distinct values
RampName == "Nota e observacao"

AllNames == ColNames \cup NumNames \cup TextNames \cup GuessNames \cup {RampName}

-----------------------------------------------------------------------------
(* Strings *)

UpperChars == "ABCDEFGHIJKLMNOPQRSTUVWXYZ"

LowerChars == "abcdefghijklmnopqrstuvwxyz"

Digits == "0123456789"

\* the i-th character of s, as a string of length 1
Ch(s, i) == SubSeq(s, i, i)

\* the characters of s
CharsOf(s) == {Ch(s, i) : i \in 1..Len(s)}

UpperSet == CharsOf(UpperChars)

DigitSet == CharsOf(Digits)

\* str.lower() of one character
LowerChar(c) ==
    IF c \in UpperSet
    THEN Ch(LowerChars, CHOOSE i \in 1..Len(UpperChars) : Ch(UpperChars, i) = c)
    ELSE c

RECURSIVE LowerFrom(_, _)
LowerFrom(s, i) ==
    IF i > Len(s) THEN "" ELSE LowerChar(Ch(s, i)) \o LowerFrom(s, i + 1)

\* str.lower() of the names above, computed once
LowerTable ==
    [s \in AllNames \cup {preferred[i] : i \in 1..Len(preferred)} |-> LowerFrom(s, 1)]

\* str.lower()
Lower(s) == IF s \in DOMAIN LowerTable THEN LowerTable[s] ELSE LowerFrom(s, 1)

\* Python's "sub in s"
Contains(sub, s) ==
    \E i \in 1..(Len(s) - Len(sub) + 1) : SubSeq(s, i, i + Len(sub) - 1) = sub

-----------------------------------------------------------------------------
(* Column-name heuristics *)

\* the columns of cols, in order, whose lowered name contains Lower(p)
MatchesOf(p, cols) ==
    SelectSeq(cols, LAMBDA c : Contains(Lower(p), Lower(c)))

RECURSIVE GuessFrom(_, _)
GuessFrom(i, cols) ==
    IF i > Len(preferred) THEN None
    ELSE IF MatchesOf(preferred[i], cols) # << >>
         THEN Head(MatchesOf(preferred[i], cols))
         ELSE GuessFrom(i + 1, cols)

\* the two loops the other way round: the first column that matches any of
\* the preferred substrings
GuessColumnsFirst(cols) ==
    LET hits == SelectSeq(cols, LAMBDA c :
                    \E i \in 1..Len(preferred) : Contains(Lower(preferred[i]), Lower(c)))
    IN  IF hits = << >> THEN None ELSE Head(hits)

\* for p in preferred: for c in cols: if p.lower() in str(c).lower(): return c
guess_timestamp_col(cols) == GuessFrom(1, cols)

is_email_col(colname) ==
    LET c == Lower(colname) IN Contains("e-mail", c) \/ Contains("email", c)

is_name_col(colname) ==
    LET c == Lower(colname)
    IN  c = "nome" \/ (Contains("nome", c) /\ Contains("seu", c))

comment_keys == <<"coment", "sugest", "observa", "feedback", "melhoria", "deixe aqui">>

is_comment_col(colname) ==
    LET c == Lower(colname)
    IN  \E k \in 1..Len(comment_keys) : Contains(comment_keys[k], c)

-----------------------------------------------------------------------------
(* clean_text *)

\* \w, for the characters the model draws texts from
WordChars == "abcdefghijklmnopqrstuvwxyzABCDEFGHIJKLMNOPQRSTUVWXYZ0123456789_"

\* \s
SpaceChars == " \t\n\r"

WordSet == CharsOf(WordChars)

SpaceSet == CharsOf(SpaceChars)

IsWord(c) == c \in WordSet

\* the class [\w\.-]
IsAddr(c) == IsWord(c) \/ c = "." \/ c = "-"

IsSpace(c) == c \in SpaceSet

SetMax(S) == CHOOSE x \in S : \A y \in S : y <= x

\* the ends m of \w+ matched from position t
TldEnds(s, t) == {m \in t..Len(s) : \A x \in t..m : IsWord(Ch(s, x))}

\* the ends k of [\w\.-]+ matched from position d that \.\w+ can follow
DomainEnds(s, d) ==
    {k \in d..Len(s) : /\ \A x \in d..k : IsAddr(Ch(s, x))
                       /\ k + 1 <= Len(s) /\ Ch(s, k + 1) = "."
                       /\ TldEnds(s, k + 2) # {}}

\* the ends j of [\w\.-]+ matched from position i that @[\w\.-]+\.\w+ can follow
LocalEnds(s, i) ==
    {j \in i..Len(s) : /\ \A x \in i..j : IsAddr(Ch(s, x))
                       /\ j + 1 <= Len(s) /\ Ch(s, j + 1) = "@"
                       /\ DomainEnds(s, j + 2) # {}}

\* EMAIL_RE with the local part written \w+ in place of [\w\.-]+
MatchEndWordLocal(s, i) ==
    LET js == {j \in LocalEnds(s, i) : \A x \in i..j : IsWord(Ch(s, x))}
    IN  IF js = {} THEN 0
        ELSE LET j == SetMax(js)
                 k == SetMax(DomainEnds(s, j + 2))
             IN  SetMax(TldEnds(s, k + 2))

\* EMAIL_RE.match(s, i): the end of the match at i, 0 when there is none.
\* Each quantifier is greedy and backtracks: the longest local part that lets
\* the rest match, then the longest domain, then the longest suffix.
MatchEnd(s, i) ==
    IF LocalEnds(s, i) = {} THEN 0
    ELSE LET j == SetMax(LocalEnds(s, i))
             k == SetMax(DomainEnds(s, j + 2))
         IN  SetMax(TldEnds(s, k + 2))

EmailMarker == "[e-mail removido]"

RECURSIVE EmailSubFrom(_, _)
EmailSubFrom(s, i) ==
    IF i > Len(s) THEN ""
    ELSE IF MatchEnd(s, i) > 0
         THEN EmailMarker \o EmailSubFrom(s, MatchEnd(s, i) + 1)
         ELSE Ch(s, i) \o EmailSubFrom(s, i + 1)

\* EMAIL_RE.sub("[e-mail removido]", s): leftmost non-overlapping matches
EmailSub(s) == EmailSubFrom(s, 1)

RECURSIVE SpaceSubFrom(_, _)
SpaceSubFrom(s, i) ==
    IF i > Len(s) THEN ""
    ELSE IF IsSpace(Ch(s, i))
         THEN IF i > 1 /\ IsSpace(Ch(s, i - 1))
              THEN SpaceSubFrom(s, i + 1)
              ELSE " " \o SpaceSubFrom(s, i + 1)
         ELSE Ch(s, i) \o SpaceSubFrom(s, i + 1)

\* WHITESPACE_RE.sub(" ", s): each run of whitespace becomes one space
SpaceSub(s) == SpaceSubFrom(s, 1)

\* str.strip()
Strip(s) ==
    LET keep == {i \in 1..Len(s) : ~IsSpace(Ch(s, i))}
    IN  IF keep = {} THEN ""
        ELSE SubSeq(s, CHOOSE a \in keep : \A b \in keep : a <= b, SetMax(keep))

clean_text(s) ==
    IF s = None THEN "" ELSE Strip(SpaceSub(EmailSub(s)))

-----------------------------------------------------------------------------
(* Numbers: the float64 values the frames hold, as exact fractions *)

NaN == [k |-> "nan", n |-> 0, d |-> 1]

PosInf == [k |-> "inf", n |-> 1, d |-> 1]

NegInf == [k |-> "inf", n |-> -1, d |-> 1]

Abs(x) == IF x < 0 THEN -x ELSE x

RECURSIVE Gcd(_, _)
Gcd(a, b) == IF b = 0 THEN a ELSE Gcd(b, a % b)

\* the finite number n/d (d > 0), in lowest terms
Fin(n, d) ==
    LET g == Gcd(Abs(n), d) IN [k |-> "fin", n |-> n \div g, d |-> d \div g]

notna(x) == x.k # "nan"

\* a >= b, for numbers that are not NaN
Geq(a, b) ==
    IF a.k = "inf" THEN a.n = 1 \/ (b.k = "inf" /\ b.n = -1)
    ELSE IF b.k = "inf" THEN b.n = -1
    ELSE a.n * b.d >= b.n * a.d

\* a + b in float arithmetic: inf + -inf is NaN
Plus(a, b) ==
    IF a.k = "nan" \/ b.k = "nan" THEN NaN
    ELSE IF a.k = "inf" /\ b.k = "inf" THEN (IF a.n = b.n THEN a ELSE NaN)
    ELSE IF a.k = "inf" THEN a
    ELSE IF b.k = "inf" THEN b
    ELSE Fin(a.n * b.d + b.n * a.d, a.d * b.d)

\* a / c for an integer c > 0
DivInt(a, c) == IF a.k = "fin" THEN Fin(a.n, a.d * c) ELSE a

-----------------------------------------------------------------------------
(* to_numeric_series *)

\* str.replace(",", ".", regex=False)
RECURSIVE CommaToDotFrom(_, _)
CommaToDotFrom(s, i) ==
    IF i > Len(s) THEN ""
    ELSE (IF Ch(s, i) = "," THEN "." ELSE Ch(s, i)) \o CommaToDotFrom(s, i + 1)

CommaToDot(s) == CommaToDotFrom(s, 1)

IsDigits(s) == \A i \in 1..Len(s) : Ch(s, i) \in DigitSet

DigitVal(c) == (CHOOSE i \in 1..Len(Digits) : Ch(Digits, i) = c) - 1

RECURSIVE IntOf(_)
IntOf(s) ==
    IF s = "" THEN 0
    ELSE 10 * IntOf(SubSeq(s, 1, Len(s) - 1)) + DigitVal(Ch(s, Len(s)))

RECURSIVE Pow10(_)
Pow10(e) == IF e = 0 THEN 1 ELSE 10 * Pow10(e - 1)

\* an unsigned decimal literal: digits, digits.digits, digits. or .digits
ParseUnsigned(s) ==
    LET dots == {i \in 1..Len(s) : Ch(s, i) = "."}
    IN  IF dots = {}
        THEN IF s # "" /\ IsDigits(s) THEN Fin(IntOf(s), 1) ELSE NaN
        ELSE LET p    == CHOOSE i \in dots : TRUE
                 ip   == SubSeq(s, 1, p - 1)
                 fp   == SubSeq(s, p + 1, Len(s))
             IN  IF Cardinality(dots) = 1 /\ IsDigits(ip) /\ IsDigits(fp)
                    /\ Len(ip) + Len(fp) > 0
                 THEN Fin(IntOf(ip \o fp), Pow10(Len(fp)))
                 ELSE NaN

Negate(x) == IF x.k = "nan" THEN x ELSE [x EXCEPT !.n = -x.n]

\* a decimal literal with an optional sign, whitespace around it skipped
ParseDecimal(s) ==
    LET t == Strip(s)
    IN  IF t = "" THEN NaN
        ELSE IF Ch(t, 1) = "-" THEN Negate(ParseUnsigned(SubSeq(t, 2, Len(t))))
        ELSE IF Ch(t, 1) = "+" THEN ParseUnsigned(SubSeq(t, 2, Len(t)))
        ELSE ParseUnsigned(t)

\* the words the parser reads as infinite floats, whatever their case
ParseInfinity(s) ==
    IF Lower(s) \in {"inf", "+inf", "infinity", "+infinity"} THEN PosInf
    ELSE IF Lower(s) \in {"-inf", "-infinity"} THEN NegInf
    ELSE NaN

\* pd.to_numeric of one string, errors="coerce": a decimal literal, else one
\* of the words for infinity, else NaN (the text "nan" too).  Literals with
\* an exponent are not among the cells of the model.
ParseNum(s) ==
    IF notna(ParseDecimal(s)) THEN ParseDecimal(s) ELSE ParseInfinity(s)

\* Series.astype(str) of one cell: a missing cell becomes the text "nan"
AsStr(cell) == IF cell.na THEN "nan" ELSE cell.v

\* to_numeric_series(series): series.astype(str).str.replace(",", ".") parsed
to_numeric_series(series) ==
    [i \in 1..Len(series) |-> ParseNum(CommaToDot(AsStr(series[i])))]

\* s.dropna()
DropNaN(s) == SelectSeq(s, notna)

RECURSIVE SumSeq(_)
SumSeq(s) == IF s = << >> THEN Fin(0, 1) ELSE Plus(Head(s), SumSeq(Tail(s)))

\* Series.mean(): the mean of the values present, NaN when there is none
Mean(s) ==
    LET present == DropNaN(s)
    IN  IF present = << >> THEN NaN ELSE DivInt(SumSeq(present), Len(present))

\* s.notna().mean() >= 0.5; the mean of no values is NaN, which is not >= 0.5
HalfPresent(s) == Len(s) > 0 /\ 2 * Len(DropNaN(s)) >= Len(s)

\* len(s.dropna().unique())
NUnique(s) == Cardinality({s[i] : i \in {j \in 1..Len(s) : notna(s[j])}})

MaxDistinct == 20

\* the test with > in place of >=
IsNumericSeriesStrict(s) == 2 * Len(DropNaN(s)) > Len(s) /\ NUnique(s) <= MaxDistinct

\* the test of line 172
IsNumericSeries(s) == HalfPresent(s) /\ NUnique(s) <= MaxDistinct

NiceLimit == 60

NiceKeep == 57

\* the one character U+2026 (horizontal ellipsis), which a TLA+ string cannot hold
Ellipsis == "~"

nice_col(col) ==
    IF Len(col) <= NiceLimit THEN col ELSE SubSeq(col, 1, NiceKeep) \o Ellipsis

-----------------------------------------------------------------------------
(* Frames *)

\* a frame: its column names in file order, its row count, and per column
\* (by position) the cells in row order
Frame(columns, n, data) == [columns |-> columns, n |-> n, data |-> data]

NoFrame == Frame(<< >>, 0, << >>)

\* the widget's value before an upload
NoUpload == [file |-> FALSE, table |-> NoFrame]

Upload(t) == [file |-> TRUE, table |-> t]

\* a test for a sheet without columns only
IsEmptyNoColumns(t) == Len(t.columns) = 0

\* DataFrame.empty: no rows or no columns
IsEmpty(t) == t.n = 0 \/ Len(t.columns) = 0

Range(s) == {s[i] : i \in 1..Len(s)}

IndexOf(s, x) == CHOOSE i \in 1..Len(s) : s[i] = x

\* df[c]
Column(t, c) == t.data[IndexOf(t.columns, c)]

\* series.dropna()
DropNA(series) == SelectSeq(series, LAMBDA cell : ~cell.na)

is_identifying(c) == is_email_col(c) \/ is_name_col(c)

\* id_cols, line 125
id_cols(cols) == SelectSeq(cols, is_identifying)

\* the columns of df_work, lines 122-127
WorkColumns(cols, hide) ==
    IF hide /\ id_cols(cols) # << >>
    THEN SelectSeq(cols, LAMBDA c : ~is_identifying(c))
    ELSE cols

\* the permutations of 1..k, as sequences
Perms(k) == {p \in [1..k -> 1..k] : \A i, j \in 1..k : p[i] = p[j] => i = j}

-----------------------------------------------------------------------------
(* Numeric indicators, lines 169-179 *)

\* numeric_cols, lines 169-173
NumericCols(t, work) ==
    SelectSeq(work, LAMBDA c : IsNumericSeries(to_numeric_series(Column(t, c))))

\* the frame of line 176 before it is sorted: one row per numeric column, its
\* index idx the position of the column in numeric_cols
MeansFrame(t, ncols) ==
    [i \in 1..Len(ncols) |->
        [idx |-> i, Indicador |-> nice_col(ncols[i]),
         Media |-> Mean(to_numeric_series(Column(t, ncols[i])))]]

\* sort_values("Media", ascending=False) with the default kind="quicksort",
\* which is not a stable sort: rows whose means are numbers come by mean
\* descending, rows of equal mean in any order; NaN means come last, in their
\* original order
SortByMean(rows) ==
    LET num  == SelectSeq(rows, LAMBDA r : notna(r.Media))
        nans == SelectSeq(rows, LAMBDA r : ~notna(r.Media))
        k    == Len(num)
    IN  {[i \in 1..k |-> num[p[i]]] \o nans :
            p \in {x \in Perms(k) :
                     \A i \in 1..(k - 1) : Geq(num[x[i]].Media, num[x[i + 1]].Media)}}

-----------------------------------------------------------------------------
(* Categorical questions, lines 202-225 *)

\* textual_cols, lines 202-208
TextualCols(cols, ncols, ts, hide) ==
    SelectSeq(cols, LAMBDA c :
        /\ c \notin Range(ncols)
        /\ c # ts
        /\ ~is_comment_col(c)
        /\ ~(hide /\ (is_email_col(c) \/ is_name_col(c))))

\* series.dropna().astype(str).map(clean_text)
CleanedTexts(series) ==
    LET present == DropNA(series)
    IN  [i \in 1..Len(present) |-> clean_text(AsStr(present[i]))]

RECURSIVE Uniques(_)
\* the distinct values of a sequence, in the order they are first met
Uniques(s) ==
    IF s = << >> THEN << >>
    ELSE LET init == Uniques(SubSeq(s, 1, Len(s) - 1))
         IN  IF s[Len(s)] \in Range(init) THEN init ELSE Append(init, s[Len(s)])

CountOf(s, v) == Cardinality({i \in 1..Len(s) : s[i] = v})

\* value_counts() before its sort: one row per distinct value, first met first
CountsFrame(texts) ==
    LET u == Uniques(texts)
    IN  [i \in 1..Len(u) |-> [Resposta |-> u[i], Quantidade |-> CountOf(texts, u[i])]]

\* value_counts() sorts its counts descending with the default kind="quicksort":
\* rows of equal count come in any order
SortByCount(rows) ==
    LET k == Len(rows)
    IN  {[i \in 1..k |-> rows[p[i]]] :
            p \in {x \in Perms(k) :
                     \A i \in 1..(k - 1) : rows[x[i]].Quantidade >= rows[x[i + 1]].Quantidade}}

\* the outcomes of lines 217-225 for the selected column
FreqFrames(t, c) == SortByCount(CountsFrame(CleanedTexts(Column(t, c))))

-----------------------------------------------------------------------------
(* Comments, lines 247-265 *)

\* comment_cols, line 247
CommentCols(cols) == SelectSeq(cols, is_comment_col)

\* what the loop body writes for one comment column
CommentBlock(t, c, limit) ==
    LET texts == CleanedTexts(Column(t, c))
    IN  [col |-> c,
         none |-> texts = << >>,
         lines |-> SubSeq(texts, 1, IF Len(texts) < limit THEN Len(texts) ELSE limit)]

CommentBlocks(t, ccols, limit) ==
    [i \in 1..Len(ccols) |-> CommentBlock(t, ccols[i], limit)]

-----------------------------------------------------------------------------
(* Summary metrics, lines 136-162 *)

\* score_col, lines 150-153
ScoreCol(cols) ==
    LET hits == SelectSeq(cols, LAMBDA c : Contains("pontuação", Lower(c)))
    IN  IF hits = << >> THEN None ELSE Head(hits)

\* the tiles; the text of the period tile comes from pd.to_datetime and is
\* not part of the model
Metrics(t) ==
    [Respondentes |-> t.n,
     Pontuacao |-> IF ScoreCol(t.columns) # None
                   THEN Mean(to_numeric_series(Column(t, ScoreCol(t.columns))))
                   ELSE NaN]

-----------------------------------------------------------------------------
(* The script *)

\* the slider of lines 101-104: its least value and its default
SliderMin == 5

SliderDefault == 30

NoMetrics == [Respondentes |-> 0, Pontuacao |-> NaN]

\* nothing read, computed or written yet
Blank ==
    /\ df = NoFrame
    /\ ts_col = None
    /\ df_work = << >>
    /\ numeric_cols = << >>
    /\ means = << >>
    /\ textual_cols = << >>
    /\ q = None
    /\ freq = << >>
    /\ comments = << >>
    /\ metrics = NoMetrics
    /\ raw_table = << >>
    /\ rendered = << >>

\* the widgets of the sidebar, lines 81-104
Widgets(upload, hide, show, limit) ==
    /\ up = upload
    /\ hide_identifying = hide
    /\ show_raw_table = show
    /\ max_comments = limit

\* the state before the script runs, for the widget values given
Start(upload, hide, show, limit) ==
    /\ pc = "start"
    /\ Widgets(upload, hide, show, limit)
    /\ Blank
    /\ arg = None
    /\ res = None

\* the state before a helper is called on x, outside any run of the script
Call(f, x) ==
    /\ pc = f
    /\ Widgets(NoUpload, TRUE, FALSE, SliderDefault)
    /\ Blank
    /\ arg = x
    /\ res = None

\* lines 106-108: no file yet
StopNoFile ==
    /\ pc = "start"
    /\ ~up.file
    /\ rendered' = Append(rendered, "info: upload")
    /\ pc' = "stopped"
    /\ UNCHANGED <<up, hide_identifying, show_raw_table, max_comments, df, ts_col,
                   df_work, numeric_cols, means, textual_cols, q, freq, comments,
                   metrics, raw_table, arg, res>>

\* lines 113-117: the file holds no data
StopEmpty ==
    /\ pc = "start"
    /\ up.file
    /\ IsEmpty(up.table)
    /\ df' = up.table
    /\ rendered' = Append(rendered, "warning: empty")
    /\ pc' = "stopped"
    /\ UNCHANGED <<up, hide_identifying, show_raw_table, max_comments, ts_col,
                   df_work, numeric_cols, means, textual_cols, q, freq, comments,
                   metrics, raw_table, arg, res>>

\* lines 113-127: read the file, find the timestamp, drop identifying columns
Load ==
    /\ pc = "start"
    /\ up.file
    /\ ~IsEmpty(up.table)
    /\ df' = up.table
    /\ ts_col' = guess_timestamp_col(up.table.columns)
    /\ df_work' = WorkColumns(up.table.columns, hide_identifying)
    /\ pc' = "summary"
    /\ UNCHANGED <<up, hide_identifying, show_raw_table, max_comments,
                   numeric_cols, means, textual_cols, q, freq, comments,
                   metrics, raw_table, rendered, arg, res>>

\* lines 132-162
Summary ==
    /\ pc = "summary"
    /\ metrics' = Metrics(df)
    /\ rendered' = rendered \o <<"subheader: resumo", "metric: respondentes",
                                 "metric: periodo", "metric: pontuacao">>
    /\ pc' = "numeric"
    /\ UNCHANGED <<up, hide_identifying, show_raw_table, max_comments, df, ts_col,
                   df_work, numeric_cols, means, textual_cols, q, freq, comments,
                   raw_table, arg, res>>

\* lines 167-195
NumericSection ==
    /\ pc = "numeric"
    /\ numeric_cols' = NumericCols(df, df_work)
    /\ IF numeric_cols' # << >>
       THEN /\ means' \in SortByMean(MeansFrame(df, numeric_cols'))
            /\ rendered' = rendered \o <<"subheader: indicadores", "chart: means",
                                         "dataframe: means">>
       ELSE /\ means' = << >>
            /\ rendered' = rendered \o <<"subheader: indicadores", "info: no numeric">>
    /\ pc' = "textual"
    /\ UNCHANGED <<up, hide_identifying, show_raw_table, max_comments, df, ts_col,
                   df_work, textual_cols, q, freq, comments, metrics, raw_table,
                   arg, res>>

\* lines 200-240; the selectbox holds any one of its options
TextualSection ==
    /\ pc = "textual"
    /\ textual_cols' = TextualCols(df.columns, numeric_cols, ts_col, hide_identifying)
    /\ IF textual_cols' # << >>
       THEN /\ q' \in Range(textual_cols')
            /\ freq' \in FreqFrames(df, q')
            /\ rendered' = rendered \o <<"subheader: questoes", "selectbox: questao",
                                         "chart: freq", "dataframe: freq">>
       ELSE /\ q' = None
            /\ freq' = << >>
            /\ rendered' = rendered \o <<"subheader: questoes", "info: no textual">>
    /\ pc' = "comments"
    /\ UNCHANGED <<up, hide_identifying, show_raw_table, max_comments, df, ts_col,
                   df_work, numeric_cols, means, comments, metrics, raw_table,
                   arg, res>>

\* lines 245-267
CommentsSection ==
    /\ pc = "comments"
    /\ comments' = CommentBlocks(df, CommentCols(df.columns), max_comments)
    /\ rendered' = rendered \o
                     (IF CommentCols(df.columns) # << >>
                      THEN <<"subheader: comentarios", "comments">>
                      ELSE <<"subheader: comentarios", "info: no comments">>)
    /\ pc' = "table"
    /\ UNCHANGED <<up, hide_identifying, show_raw_table, max_comments, df, ts_col,
                   df_work, numeric_cols, means, textual_cols, q, freq, metrics,
                   raw_table, arg, res>>

\* lines 272-278
RawTable ==
    /\ pc = "table"
    /\ raw_table' = IF show_raw_table THEN df_work ELSE << >>
    /\ rendered' = rendered \o
                     (IF show_raw_table
                      THEN <<"subheader: tabela", "dataframe: df_work", "caption">>
                      ELSE <<"caption">>)
    /\ pc' = "done"
    /\ UNCHANGED <<up, hide_identifying, show_raw_table, max_comments, df, ts_col,
                   df_work, numeric_cols, means, textual_cols, q, freq, comments,
                   metrics, arg, res>>

Next ==
    \/ StopNoFile
    \/ StopEmpty
    \/ Load
    \/ Summary
    \/ NumericSection
    \/ TextualSection
    \/ CommentsSection
    \/ RawTable

-----------------------------------------------------------------------------
(* Inputs *)

\* the sequences of at most k distinct names
RECURSIVE NameLists(_, _)
NameLists(names, k) ==
    IF k = 0 THEN {<< >>}
    ELSE LET shorter == NameLists(names, k - 1)
         IN  shorter \cup
             UNION {{Append(l, c) : c \in names \ Range(l)} : l \in shorter}

\* the frames with these columns and n rows of cells
FramesWith(cols, n, cells) ==
    {Frame(cols, n, data) : data \in [1..Len(cols) -> [1..n -> cells]]}

\* the frames a sheet can give: distinct column names, under each the same
\* number of cells; a sheet without columns has no rows
Frames(names, cells, maxCols, maxRows) ==
    {t \in UNION {FramesWith(cols, n, cells) :
                    cols \in NameLists(names, maxCols), n \in 0..maxRows} :
        t.columns = << >> => t.n = 0}

\* what the uploader can hold
Uploads(frames) == {NoUpload} \cup {Upload(t) : t \in frames}

-----------------------------------------------------------------------------
(* The script on sheets of few rows and every kind of column *)

MaxCols == 2

MaxRows == 1

Cells == {NA, Cell("1")}

Init ==
    \E u \in Uploads(Frames(ColNames, Cells, MaxCols, MaxRows)),
       hide \in BOOLEAN, show \in BOOLEAN :
        Start(u, hide, show, SliderDefault)

Spec == Init /\ [][Next]_vars

-----------------------------------------------------------------------------
(* The script on sheets of ratings *)

NumMaxRows == 3

MaxRamp == 21

\* what a cell of a rating column can hold: nothing, numbers (with a decimal
\* comma too), a word, and the two words pandas reads as infinite floats
NumCells ==
    {NA, Cell("1"), Cell("2,5"), Cell("n/a"), Cell("inf"), Cell("-inf")}

SortCells == {Cell("1"), Cell("2")}

RECURSIVE Decimal(_)
\* str(i) of an integer i >= 0
Decimal(i) ==
    IF i < 10 THEN Ch(Digits, i + 1) ELSE Decimal(i \div 10) \o Ch(Digits, (i % 10) + 1)

\* a column of the ratings 1..m followed by j cells that all hold fill
RampColumn(m, j, fill) ==
    [i \in 1..(m + j) |-> IF i <= m THEN Cell(Decimal(i)) ELSE fill]

RampFrames ==
    {Frame(<<RampName>>, m + j, <<RampColumn(m, j, fill)>>) :
        m \in 0..MaxRamp, j \in 0..MaxRamp, fill \in {NA, Cell("n/a")}}

\* the column [1, 2, 1, 1, 2, missing]
ExampleFrame ==
    Frame(<<"Nota">>, 6,
          <<<<Cell("1"), Cell("2"), Cell("1"), Cell("1"), Cell("2"), NA>>>>)

NumFrames ==
    Frames(NumNames, NumCells, 1, NumMaxRows)
      \cup Frames(NumNames, SortCells, MaxCols + 1, MaxRows)
      \cup RampFrames
      \cup {ExampleFrame}

InitNum ==
    \E u \in Uploads(NumFrames), hide \in BOOLEAN :
        Start(u, hide, TRUE, SliderDefault)

SpecNum == InitNum /\ [][Next]_vars

-----------------------------------------------------------------------------
(* The script on sheets of answers in words *)

TextMaxRows == 6

TextCells == {NA, Cell(" "), Cell("Sim"), Cell("Nao")}

InitText ==
    \E u \in Uploads(Frames(TextNames, TextCells, 1, TextMaxRows)),
       limit \in {SliderMin, SliderDefault} :
        Start(u, TRUE, FALSE, limit)

SpecText == InitText /\ [][Next]_vars

-----------------------------------------------------------------------------
(* clean_text on every short text *)

MaxLen == 7

TextChars == {"a", ".", "-", "@", " "}

RECURSIVE Texts(_)
\* the texts of at most n characters
Texts(n) ==
    IF n = 0 THEN {""}
    ELSE LET shorter == Texts(n - 1)
         IN  shorter \cup {t \o c : t \in shorter, c \in TextChars}

InitClean == \E t \in Texts(MaxLen) \cup {None} : Call("clean_text", t)

\* s = clean_text(s)
CallCleanText ==
    /\ pc = "clean_text"
    /\ res' = clean_text(arg)
    /\ pc' = "returned"
    /\ UNCHANGED <<pipeVars, arg>>

SpecClean == InitClean /\ [][CallCleanText]_vars

-----------------------------------------------------------------------------
(* guess_timestamp_col on every short list of columns *)

GuessMaxCols == 3

InitGuess == \E cols \in NameLists(GuessNames, GuessMaxCols) : Call("guess_timestamp_col", cols)

\* ts_col = guess_timestamp_col(cols)
CallGuess ==
    /\ pc = "guess_timestamp_col"
    /\ res' = guess_timestamp_col(arg)
    /\ pc' = "returned"
    /\ UNCHANGED <<pipeVars, arg>>

SpecGuess == InitGuess /\ [][CallGuess]_vars

-----------------------------------------------------------------------------
(* Claims about clean_text, under SpecClean *)

\* t holds a substring of the email shape: a character of [\w\.-], then "@",
\* then one or more characters of [\w\.-], then ".", then a word character
EmailShaped(t) ==
    \E p \in 2..Len(t) :
        /\ Ch(t, p) = "@"
        /\ IsAddr(Ch(t, p - 1))
        /\ \E k \in (p + 1)..(Len(t) - 2) :
              /\ \A x \in (p + 1)..k : IsAddr(Ch(t, x))
              /\ Ch(t, k + 1) = "."
              /\ IsWord(Ch(t, k + 2))

\* C4: whatever the input, the text clean_text returns holds no substring of
\* the email shape: neither the marker next to what is left of the text nor
\* the collapsing of whitespace makes a new one.
C4_NoEmailInCleanText == pc = "returned" => ~EmailShaped(res)

\* an address was replaced and an "@" of the input is left right after the marker
C4_Witness ==
    /\ pc = "returned"
    /\ arg = "a@a.a@a"
    /\ res = "[e-mail removido]@a"

-----------------------------------------------------------------------------
(* Claims about guess_timestamp_col, under SpecGuess *)

\* column c holds the i-th preferred substring, whatever the case of the letters
HoldsPreferred(c, i) == Contains(Lower(preferred[i]), Lower(c))

\* the preferences some column of cols holds
Matched(cols) ==
    {i \in 1..Len(preferred) : \E j \in 1..Len(cols) : HoldsPreferred(cols[j], i)}

SetMin(S) == CHOOSE x \in S : \A y \in S : x <= y

\* C7: guess_timestamp_col returns None when no column holds any of the four
\* preferred substrings; otherwise it returns the first column, in file order,
\* that holds the highest preference held by any column.
C7_GuessTimestamp ==
    pc = "returned" =>
        IF Matched(arg) = {} THEN res = None
        ELSE LET best == SetMin(Matched(arg))
             IN  res = arg[SetMin({j \in 1..Len(arg) : HoldsPreferred(arg[j], best)})]

\* a later column of higher preference wins over an earlier one of lower
\* preference
C7_Witness ==
    /\ pc = "returned"
    /\ arg = <<"Data e Hora", "Nota", "TIMESTAMP">>
    /\ res = "TIMESTAMP"

-----------------------------------------------------------------------------
(* Claims about the run of the script, under Spec *)

Wrote(x) == \E i \in 1..Len(rendered) : rendered[i] = x

\* the columns the comments section listed
CommentedCols == {comments[i].col : i \in 1..Len(comments)}

\* C1: with hide-identifying on, no column whose name is_email_col or
\* is_name_col accepts is given to an aggregator (the numeric indicators, the
\* categorical selector and frequencies, the comment listing) or written in
\* the raw table, also when is_comment_col accepts the name too.
C1_IdentifyingAbsent ==
    hide_identifying =>
        \A c \in Range(df.columns) :
            (is_email_col(c) \/ is_name_col(c)) =>
                /\ c \notin Range(df_work)
                /\ c \notin Range(numeric_cols)
                /\ c \notin Range(textual_cols)
                /\ c # q
                /\ c \notin CommentedCols
                /\ c \notin Range(raw_table)

\* C2: the column guess_timestamp_col designates is in neither numeric_cols nor
\* textual_cols, whatever its cells hold.
C2_TimestampExcluded ==
    ts_col # None =>
        /\ ts_col \notin Range(numeric_cols)
        /\ ts_col \notin Range(textual_cols)

\* a section is written once, as its content or as its message
NumericWritten ==
    (Wrote("chart: means") /\ Wrote("dataframe: means")) # Wrote("info: no numeric")

TextualWritten ==
    (Wrote("selectbox: questao") /\ Wrote("chart: freq") /\ Wrote("dataframe: freq"))
        # Wrote("info: no textual")

CommentsWritten == Wrote("comments") # Wrote("info: no comments")

HasRows == up.file /\ up.table.n >= 1

\* the step of the script at pc can be taken: its sort, its selectbox and its
\* frequency table have an outcome
CanGoOn ==
    /\ pc = "numeric" => SortByMean(MeansFrame(df, NumericCols(df, df_work))) # {}
    /\ pc = "textual" =>
          \A c \in Range(TextualCols(df.columns, numeric_cols, ts_col, hide_identifying)) :
              FreqFrames(df, c) # {}

\* C3: the run writes the three aggregator sections, each as its content or
\* as its own message, exactly when a file was supplied and its table has a
\* row; otherwise it halts on a prompt or a warning and writes no metric,
\* section or table.  A section in its empty state does not keep the later
\* ones from being written: a run that did not halt goes on to the end.
C3_SectionsOrHalt ==
    /\ pc = "done" => HasRows /\ NumericWritten /\ TextualWritten /\ CommentsWritten
    /\ pc = "stopped" =>
          /\ ~HasRows
          /\ rendered = (IF up.file THEN <<"warning: empty">> ELSE <<"info: upload">>)
    /\ pc \in {"textual", "comments", "table"} => NumericWritten
    /\ pc \in {"comments", "table"} => TextualWritten
    /\ pc = "table" => CommentsWritten
    /\ CanGoOn

\* a finished run whose first two sections are in their empty state and whose
\* comments are listed
C3_Witness ==
    /\ pc = "done"
    /\ rendered = <<"subheader: resumo", "metric: respondentes", "metric: periodo",
                    "metric: pontuacao", "subheader: indicadores", "info: no numeric",
                    "subheader: questoes", "info: no textual",
                    "subheader: comentarios", "comments", "caption">>

-----------------------------------------------------------------------------
(* Claims about the numeric indicators, under SpecNum *)

AfterNumeric == pc \in {"textual", "comments", "table", "done"}

\* the cells of column c that parse as numbers, by row
ParsedRows(c) ==
    {i \in 1..df.n : notna(ParseNum(CommaToDot(AsStr(Column(df, c)[i]))))}

\* the distinct numbers the cells of column c parse to
ParsedValues(c) ==
    {ParseNum(CommaToDot(AsStr(Column(df, c)[i]))) : i \in ParsedRows(c)}

\* C8: a column of the table left after anonymization, other than the
\* timestamp column, is in numeric_cols exactly when at least half of its
\* cells parse as numbers (2 * parsed >= rows) and the parsed values are at
\* most 20 distinct numbers.
C8_NumericThresholds ==
    AfterNumeric =>
        \A c \in Range(df_work) :
            c # ts_col =>
                (c \in Range(numeric_cols) <=>
                    /\ 2 * Cardinality(ParsedRows(c)) >= df.n
                    /\ Cardinality(ParsedValues(c)) <= 20)

\* the column [1, 2, 1, 1, 2, missing] is an indicator, its mean 7/5 that of
\* the five values present
C8_Witness ==
    /\ AfterNumeric
    /\ df = ExampleFrame
    /\ numeric_cols = <<"Nota">>
    /\ means = <<[idx |-> 1, Indicador |-> "Nota", Media |-> Fin(7, 5)]>>

\* C9: the indicator frame has one row per column of numeric_cols, by mean
\* descending, and columns of equal mean keep the order of the columns.
C9_StableMeans ==
    AfterNumeric =>
        /\ Len(means) = Len(numeric_cols)
        /\ \A c \in 1..Len(numeric_cols) :
              \E i \in 1..Len(means) :
                  /\ means[i].idx = c
                  /\ means[i].Indicador = nice_col(numeric_cols[c])
        /\ \A i, j \in 1..Len(means) :
              (i < j /\ notna(means[i].Media) /\ notna(means[j].Media)) =>
                  /\ Geq(means[i].Media, means[j].Media)
                  /\ means[i].Media = means[j].Media => means[i].idx < means[j].idx

\* C10: every column of numeric_cols has a cell that parses as a number, and
\* no row of the indicator frame has a NaN mean.
C10_DefinedMeans ==
    AfterNumeric =>
        /\ \A c \in Range(numeric_cols) : ParsedRows(c) # {}
        /\ \A i \in 1..Len(means) : notna(means[i].Media)

-----------------------------------------------------------------------------
(* Claims about the answers in words, under SpecText *)

\* the cleaned texts of the cells of column c that are not missing and are
\* not empty once cleaned, in row order
NonEmptyTexts(c) ==
    LET cells == SelectSeq(Column(df, c), LAMBDA x : ~x.na /\ clean_text(x.v) # "")
    IN  [i \in 1..Len(cells) |-> clean_text(cells[i].v)]

FirstN(s, n) == SubSeq(s, 1, IF Len(s) < n THEN Len(s) ELSE n)

\* C5: under each comment column the entries written are the first
\* max_comments of the cleaned non-empty comments in row order, none of them
\* the empty string; a column without a non-empty comment gets the
\* no-comments line.
C5_CommentEntries ==
    pc \in {"table", "done"} =>
        \A i \in 1..Len(comments) :
            LET expected == NonEmptyTexts(comments[i].col)
            IN  /\ comments[i].lines = FirstN(expected, max_comments)
                /\ \A k \in 1..Len(comments[i].lines) : comments[i].lines[k] # ""
                /\ expected = << >> => comments[i].none

\* the row of the first cell of column c whose cleaned text is v
FirstRow(c, v) ==
    SetMin({i \in 1..df.n : ~Column(df, c)[i].na /\ clean_text(Column(df, c)[i].v) = v})

\* C6: the frequency frame of the selected column has one row per distinct
\* non-empty cleaned value of the cells that are not missing, its count the
\* number of cells whose cleaned text is that value, by count descending,
\* rows of equal count in the order their values first occur.
C6_FrequencyRows ==
    (pc \in {"comments", "table", "done"} /\ q # None) =>
        LET values == Range(NonEmptyTexts(q))
        IN  /\ Len(freq) = Cardinality(values)
            /\ {freq[i].Resposta : i \in 1..Len(freq)} = values
            /\ \A i \in 1..Len(freq) :
                  freq[i].Quantidade =
                      Cardinality({r \in 1..df.n : /\ ~Column(df, q)[r].na
                                                   /\ clean_text(Column(df, q)[r].v) = freq[i].Resposta})
            /\ \A i, j \in 1..Len(freq) :
                  i < j =>
                      \/ freq[i].Quantidade > freq[j].Quantidade
                      \/ /\ freq[i].Quantidade = freq[j].Quantidade
                         /\ FirstRow(q, freq[i].Resposta) < FirstRow(q, freq[j].Resposta)

=============================================================================
